---- MODULE Spec2Model ----
(***************************************************************************)
(* The query composition and filtering engine of the gaming-venues         *)
(* directory: TursoDatabase (src/src/lib/database.ts) over the seven       *)
(* tables of db/config.ts.                                                 *)
(*                                                                         *)
(* Tables are sequences of rows.  Text columns are sequences of one-       *)
(* character strings, so that LIKE is computed, not assumed.  An optional  *)
(* field of BusinessFilters is a set: {} when the field is absent, {v}     *)
(* when it is present with value v.                                        *)
(*                                                                         *)
(* A SELECT ... ORDER BY featured DESC, rating DESC leaves the order of    *)
(* rows with equal keys to the store; every order the store may produce is *)
(* a possible result, and an action picks one of them per query.           *)
(* Rows of a join without ORDER BY come back as a bag (row -> number of    *)
(* copies): the order is the store's, the multiplicities are the query's.  *)
(***************************************************************************)
EXTENDS Integers, Sequences, FiniteSets, TLC

\* ----------------------------------------------------------------- bounds
\* Number of rows of the businesses table.
NumBusinesses == 3
\* Largest limit and largest offset a caller passes.
MaxPage == 3
\* Largest position, among the queries one call sends to the store, at which
\* the store may fail.
MaxFault == 7
MaxWrites == 2

\* ------------------------------------------------------------------- text
Range(s) == {s[i] : i \in DOMAIN s}

\* SQLite folds ASCII case in LIKE.
Lower(c) ==
  CASE c = "A" -> "a" [] c = "B" -> "b" [] c = "C" -> "c" [] c = "D" -> "d"
    [] c = "I" -> "i" [] c = "K" -> "k" [] c = "M" -> "m" [] c = "N" -> "n"
    [] c = "P" -> "p" [] c = "R" -> "r" [] c = "S" -> "s" [] c = "T" -> "t"
    [] c = "U" -> "u" [] c = "V" -> "v" [] c = "W" -> "w" [] c = "Y" -> "y"
    [] OTHER -> c

\* text LIKE pattern: % matches any run of characters, _ any one character.
RECURSIVE LikeMatch(_, _)
LikeMatch(text, pattern) ==
  IF pattern = <<>> THEN text = <<>>
  ELSE IF Head(pattern) = "%"
       THEN LikeMatch(text, Tail(pattern)) \/ (text # <<>> /\ LikeMatch(Tail(text), pattern))
       ELSE /\ text # <<>>
            /\ (Head(pattern) = "_" \/ Lower(Head(pattern)) = Lower(Head(text)))
            /\ LikeMatch(Tail(text), Tail(pattern))

\* Text columns compare byte by byte (SQLite's BINARY collation).
Alphabet ==
  <<"1","2","3","4","5","6","7","8","9",
    "A","B","C","D","E","F","G","H","I","J","K","L","M","N","O","P","Q","R","S","T",
    "U","V","W","X","Y","Z","_",
    "a","b","c","d","e","f","g","h","i","j","k","l","m","n","o","p","q","r","s","t",
    "u","v","w","x","y","z">>
CharCode(c) == CHOOSE k \in DOMAIN Alphabet : Alphabet[k] = c

RECURSIVE TextLess(_, _)
TextLess(a, b) ==
  IF a = <<>> THEN b # <<>>
  ELSE IF b = <<>> THEN FALSE
  ELSE IF Head(a) = Head(b) THEN TextLess(Tail(a), Tail(b))
  ELSE CharCode(Head(a)) < CharCode(Head(b))

\* The template literal `%${s}%`.
Wrap(s) == <<"%">> \o s \o <<"%">>

\* --------------------------------------------------------------- the store
VARIABLES
  businesses,           \* Business rows
  categories,           \* Category rows
  amenities,            \* Amenity rows
  regions,              \* Region rows
  business_categories,  \* junction rows [business_id, category_id]
  business_amenities,   \* junction rows [business_id, amenity_id]
  business_regions,     \* junction rows [business_id, region_id]
  request,              \* the call a page handler makes: [op, query, filters, pagination]
  pc,                   \* "call" while the request is pending, "done" once it returned
  last,                 \* the call that returned last, with its result
  prev,                 \* the call that returned before it
  store_fault,          \* the store fails the n-th query of the call; 0: it never fails
  frame,                \* locals of a getBusinesses call taken query by query
  observed              \* the tables as each query of that call read them; writes made

tables == <<businesses, categories, amenities, regions,
            business_categories, business_amenities, business_regions>>
vars == <<businesses, categories, amenities, regions,
          business_categories, business_amenities, business_regions,
          request, pc, last, prev, store_fault, frame, observed>>

\* ------------------------------------------------------------ the datasets
\* The store is populated by an ingestion process outside the service; a
\* behaviour starts from one of the datasets below.  The text columns of a
\* row follow from its id; its flags and rating are free.
DigitChar == <<"1", "2", "3", "4", "5", "6", "7", "8", "9">>

BusinessTexts ==
  << [name |-> <<"S","t","a","r">>, description |-> <<"b","a","r">>,
      full_address |-> <<"K","e","n","t">>, city |-> <<"S","y","d">>,
      state |-> <<"N","S","W">>, business_type |-> <<"C","l","u","b">>],
     [name |-> <<"C","r","o","w","n">>, description |-> <<"s","p","a">>,
      full_address |-> <<"B","a","y">>, city |-> <<"M","e","l">>,
      state |-> <<"V","I","C">>, business_type |-> <<"P","u","b">>],
     [name |-> <<"R","e","e","f">>, description |-> <<"b","a","r">>,
      full_address |-> <<"R","d">>, city |-> <<"S","y","d">>,
      state |-> <<"Q","L","D">>, business_type |-> <<"P","u","b">>] >>

Ratings == {4, 5}

\* One Business row (db/config.ts, Business): the columns the queries read.
BusinessRow(i, active, feat, rate) ==
  LET t == BusinessTexts[((i - 1) % Len(BusinessTexts)) + 1]
  IN [id |-> i, name |-> t.name, slug |-> <<"v", DigitChar[i]>>,
      rating |-> rate, full_address |-> t.full_address, city |-> t.city,
      state |-> t.state, business_type |-> t.business_type,
      description |-> t.description, is_active |-> active,
      featured |-> feat, verified |-> (i % 3 # 0)]

BusinessIds == 1 .. NumBusinesses

\* The flags and rating of a row.  No query reads featured or rating of a row
\* whose is_active is false, so one inactive row stands for all of them.
RowProfiles ==
  {[is_active |-> TRUE, featured |-> f, rating |-> r] : f \in BOOLEAN, r \in Ratings}
    \cup {[is_active |-> FALSE, featured |-> TRUE, rating |-> 5]}

BusinessTables ==
  { [i \in BusinessIds |-> BusinessRow(i, p[i].is_active, p[i].featured, p[i].rating)] :
      p \in [BusinessIds -> RowProfiles] }

CategoryRows ==
  << [id |-> 1, name |-> <<"C","a","s","i","n","o">>, slug |-> <<"c","a","s","i","n","o">>, is_active |-> TRUE],
     [id |-> 2, name |-> <<"B","i","n","g","o">>, slug |-> <<"b","i","n","g","o">>, is_active |-> TRUE],
     [id |-> 3, name |-> <<"T","a","b">>, slug |-> <<"t","a","b">>, is_active |-> FALSE] >>

AmenityRows ==
  << [id |-> 1, name |-> <<"B","a","r">>, slug |-> <<"b","a","r">>, category |-> <<"f","o","o","d">>, is_active |-> TRUE],
     [id |-> 2, name |-> <<"A","t","m">>, slug |-> <<"a","t","m">>, category |-> <<"c","a","s","h">>, is_active |-> TRUE],
     [id |-> 3, name |-> <<"S","p","a">>, slug |-> <<"s","p","a">>, category |-> <<"f","o","o","d">>, is_active |-> FALSE] >>

RegionRows ==
  << [id |-> 1, name |-> <<"S","y","d">>, slug |-> <<"s","y","d">>, state |-> <<"N","S","W">>, country |-> <<"A","U">>],
     [id |-> 2, name |-> <<"M","e","l">>, slug |-> <<"m","e","l">>, state |-> <<"V","I","C">>, country |-> <<"A","U">>] >>

\* A junction table from <<business, facet>> pairs; pairs of a business the
\* dataset does not hold are left out.
Junction(key, pairs) ==
  LET kept == SelectSeq(pairs, LAMBDA p : p[1] \in BusinessIds)
  IN [i \in 1 .. Len(kept) |->
        IF key = "category_id" THEN [business_id |-> kept[i][1], category_id |-> kept[i][2]]
        ELSE IF key = "amenity_id" THEN [business_id |-> kept[i][1], amenity_id |-> kept[i][2]]
        ELSE [business_id |-> kept[i][1], region_id |-> kept[i][2]]]

\* The membership relations a behaviour may start with.
\* The scenario L1(cat 1, amenity 1), L2(cat 1, amenity 2), L3(cat 3, amenity 1).
ScenarioMemberships ==
  [cats |-> << <<1,1>>, <<2,1>>, <<3,3>>, <<4,2>> >>,
   amens |-> << <<1,1>>, <<2,2>>, <<3,1>>, <<4,1>> >>,
   regs |-> << <<1,1>>, <<2,2>>, <<3,1>>, <<4,2>> >>]
\* Listings in several values of one facet, and repeated membership rows (the
\* junction tables declare no key).
RepeatedMemberships ==
  [cats |-> << <<1,1>>, <<1,2>>, <<1,1>>, <<2,2>>, <<4,1>>, <<4,1>> >>,
   amens |-> << <<1,1>>, <<1,2>>, <<2,3>>, <<3,2>>, <<3,2>> >>,
   regs |-> << <<2,1>>, <<2,1>>, <<3,2>>, <<4,1>> >>]
\* Few memberships, one facet with none.
SparseMemberships ==
  [cats |-> << <<3,2>> >>, amens |-> << >>, regs |-> << <<1,2>> >>]

Memberships == {ScenarioMemberships, RepeatedMemberships, SparseMemberships}

NoCall == [op |-> "none"]

\* No call is being taken query by query: businessIds undefined, no listing
\* selected, no query answered, the store as the ingestion left it.
NoFrame == [businessIds |-> {}, businessList |-> <<>>, businessResults |-> <<>>]
Unobserved ==
  [writes |-> 0, categories |-> {}, amenities |-> {}, regions |-> {}, businesses |-> {}]

InitStore(m) ==
  /\ businesses \in BusinessTables
  /\ categories = CategoryRows
  /\ amenities = AmenityRows
  /\ regions = RegionRows
  /\ business_categories = Junction("category_id", m.cats)
  /\ business_amenities = Junction("amenity_id", m.amens)
  /\ business_regions = Junction("region_id", m.regs)

\* ------------------------------------------------- the query builder (SQL)
\* Conditions are built as values and evaluated against a row by Holds.
eq(col, v) == [op |-> "eq", col |-> col, val |-> v]
gte(col, v) == [op |-> "gte", col |-> col, val |-> v]
like(col, pattern) == [op |-> "like", col |-> col, val |-> pattern]
or(conds) == [op |-> "or", col |-> "", val |-> conds]

RECURSIVE Holds(_, _)
Holds(c, row) ==
  CASE c.op = "eq" -> row[c.col] = c.val
    [] c.op = "gte" -> row[c.col] >= c.val
    [] c.op = "like" -> LikeMatch(row[c.col], c.val)
    [] c.op = "or" -> \E i \in DOMAIN c.val : Holds(c.val[i], row)

\* and(...conditions)
and(conds, row) == \A i \in DOMAIN conds : Holds(conds[i], row)

\* db.select().from(table).where(and(...conds)), in table order.
Where(table, conds) == SelectSeq(table, LAMBDA row : and(conds, row))

\* ------------------------------------------------------- optional fields
The(opt) == CHOOSE v \in opt : TRUE
\* JavaScript truthiness of an optional string, number and boolean.
TruthyText(opt) == opt # {} /\ The(opt) # <<>>
TruthyNumber(opt) == opt # {} /\ The(opt) # 0
TruthyFlag(opt) == opt # {} /\ The(opt) = TRUE
When(b, conds) == IF b THEN conds ELSE <<>>

\* Mutant: the length test is missing, an empty array counts as supplied.
FacetSuppliedAnyLength(opt) == opt # {}

\* `filters.categories && filters.categories.length > 0` (and the same test
\* on amenities and regions, in each of the four operations).
FacetSupplied(opt) == opt # {} /\ Len(The(opt)) > 0

\* ------------------------------------------------------- scalar predicates
\* Mutant: the base condition on is_active is missing.
ListConditionsAnyStatus(filters) ==
  When(TruthyText(filters.city), <<like("city", Wrap(The(filters.city)))>>)
    \o When(TruthyText(filters.state), <<like("state", Wrap(The(filters.state)))>>)
    \o When(TruthyNumber(filters.rating_min), <<gte("rating", The(filters.rating_min))>>)
    \o When(TruthyFlag(filters.featured_only), <<eq("featured", TRUE)>>)
    \o When(TruthyFlag(filters.verified_only), <<eq("verified", TRUE)>>)

\* Mutant: the rating bound is exclusive.
ListConditionsAbove(filters) ==
  <<eq("is_active", TRUE)>>
    \o When(TruthyText(filters.city), <<like("city", Wrap(The(filters.city)))>>)
    \o When(TruthyText(filters.state), <<like("state", Wrap(The(filters.state)))>>)
    \o When(TruthyNumber(filters.rating_min), <<gte("rating", The(filters.rating_min) + 1)>>)
    \o When(TruthyFlag(filters.featured_only), <<eq("featured", TRUE)>>)
    \o When(TruthyFlag(filters.verified_only), <<eq("verified", TRUE)>>)

\* getBusinesses: the conditions pushed before the facet lookups.
ListConditions(filters) ==
  <<eq("is_active", TRUE)>>
    \o When(TruthyText(filters.city), <<like("city", Wrap(The(filters.city)))>>)
    \o When(TruthyText(filters.state), <<like("state", Wrap(The(filters.state)))>>)
    \o When(TruthyNumber(filters.rating_min), <<gte("rating", The(filters.rating_min))>>)
    \o When(TruthyFlag(filters.featured_only), <<eq("featured", TRUE)>>)
    \o When(TruthyFlag(filters.verified_only), <<eq("verified", TRUE)>>)

\* ------------------------------------------------------------ facet lookups
\* Mutant: the categories lookup is joined to the active categories.
FacetLookupActive(junction, key, ids) ==
  LET rows == Where(junction, <<or([i \in DOMAIN ids |-> eq(key, ids[i])])>>)
      kept == SelectSeq(rows, LAMBDA row :
                key = "category_id" =>
                  \E c \in Range(categories) : c.id = row.category_id /\ c.is_active)
  IN [i \in DOMAIN kept |-> kept[i].business_id]

\* db.select({business_id}).from(junction).where(or(...ids.map(id => eq(key, id))))
\* mapped to its business_id column.
FacetLookup(junction, key, ids) ==
  LET rows == Where(junction, <<or([i \in DOMAIN ids |-> eq(key, ids[i])])>>)
  IN [i \in DOMAIN rows |-> rows[i].business_id]

\* Mutant: the facets are OR-ed, the second id list is appended.
IntersectAppend(ids, otherIds) == ids \o otherIds

\* Mutant: a later facet's ids replace the ids found so far.
IntersectReplacing(ids, otherIds) == otherIds

\* businessIds.filter(id => otherIds.includes(id))
Intersect(ids, otherIds) == SelectSeq(ids, LAMBDA id : id \in Range(otherIds))

\* Mutant: a facet that leaves no id is dropped instead of ending the call.
FacetStepCollapsing(acc, opt, junction, key) ==
  IF acc.returned \/ ~FacetSupplied(opt) THEN acc
  ELSE LET found == FacetLookup(junction, key, The(opt))
           ids == IF acc.businessIds # {} THEN Intersect(The(acc.businessIds), found)
                  ELSE found
       IN IF Len(ids) = 0 THEN [businessIds |-> {}, returned |-> FALSE]
          ELSE [businessIds |-> {ids}, returned |-> FALSE]

\* One `if (filters.<facet> && ...)` block.  acc.businessIds is {} while
\* businessIds is undefined; acc.returned says an early return was taken.
FacetStep(acc, opt, junction, key) ==
  IF acc.returned \/ ~FacetSupplied(opt) THEN acc
  ELSE LET found == FacetLookup(junction, key, The(opt))
           ids == IF acc.businessIds # {} THEN Intersect(The(acc.businessIds), found)
                  ELSE found
       IN [businessIds |-> {ids}, returned |-> Len(ids) = 0]

\* The three blocks in sequence: categories, amenities, regions.
ResolveFacets(filters) ==
  LET c == FacetStep([businessIds |-> {}, returned |-> FALSE],
                     filters.categories, business_categories, "category_id")
      a == FacetStep(c, filters.amenities, business_amenities, "amenity_id")
  IN FacetStep(a, filters.regions, business_regions, "region_id")

\* "Add business ID filter if we have specific IDs to filter by": one eq, or
\* the or-chain of one eq per id.
IdConditions(businessIds) ==
  IF businessIds = {} \/ The(businessIds) = <<>> THEN <<>>
  ELSE LET ids == The(businessIds)
       IN IF Len(ids) = 1 THEN <<eq("id", ids[1])>>
          ELSE <<or([i \in DOMAIN ids |-> eq("id", ids[i])])>>

\* ------------------------------------------------------ order and paginate
\* Mutant: ORDER BY rating DESC alone.
SortsBeforeRatingOnly(a, b) == a.rating > b.rating

\* a sorts strictly before b under ORDER BY featured DESC, rating DESC.
SortsBefore(a, b) ==
  \/ a.featured /\ ~b.featured
  \/ a.featured = b.featured /\ a.rating > b.rating

\* Every order of rows the store may return for an ORDER BY under which
\* Before(a, b) says that a sorts strictly before b.
Sorted(rows, Before(_, _)) ==
  LET n == Len(rows)
      perms == {p \in [1 .. n -> 1 .. n] : \A i, j \in 1 .. n : i # j => p[i] # p[j]}
  IN {[i \in 1 .. n |-> rows[p[i]]] : p \in
        {q \in perms : \A i, j \in 1 .. n : i < j => ~Before(rows[q[j]], rows[q[i]])}}

\* .orderBy(desc(businesses.featured), desc(businesses.rating))
OrderBy(rows) == Sorted(rows, SortsBefore)

\* Mutant: the page starts one row early.
LimitOffsetEarly(rows, limit, offset) ==
  LET n == Len(rows)
      off == IF offset < 1 THEN 0 ELSE offset - 1
      last_ == IF limit < 0 \/ off + limit > n THEN n ELSE off + limit
  IN SubSeq(rows, off + 1, last_)

\* .limit(limit).offset(offset): SQLite reads a negative limit as no limit and
\* a negative offset as 0.
LimitOffset(rows, limit, offset) ==
  LET n == Len(rows)
      off == IF offset < 0 THEN 0 ELSE offset
      last_ == IF limit < 0 \/ off + limit > n THEN n ELSE off + limit
  IN SubSeq(rows, off + 1, last_)

\* ------------------------------------------------- categories of a listing
\* Mutant: the join keeps the categories that are not active.
CategoriesOfAnyStatus(id) ==
  LET hits(c) == Len(Where(business_categories,
                           <<eq("business_id", id), eq("category_id", c.id)>>))
      joined == {c \in Range(categories) : hits(c) > 0}
  IN [c \in joined |-> hits(c)]

\* categories INNER JOIN business_categories WHERE business_id = id AND
\* categories.is_active: one row per matching junction row, as a bag.
CategoriesOf(id) ==
  LET hits(c) == Len(Where(business_categories,
                           <<eq("business_id", id), eq("category_id", c.id)>>))
      active == Where(categories, <<eq("is_active", TRUE)>>)
      joined == {c \in Range(active) : hits(c) > 0}
  IN [c \in joined |-> hits(c)]

\* Mutant: the join is not restricted to the listing, every listing gets the
\* categories of the first one.
BusinessResultOfFirst(business) ==
  [f \in DOMAIN business \cup {"categories"} |->
     IF f = "categories" THEN CategoriesOf(1) ELSE business[f]]

\* { ...business, categories: businessCategories }
BusinessResult(business) ==
  [f \in DOMAIN business \cup {"categories"} |->
     IF f = "categories" THEN CategoriesOf(business.id) ELSE business[f]]

WithCategories(businessList) ==
  [i \in DOMAIN businessList |-> BusinessResult(businessList[i])]

\* ------------------------------------------------------------ getBusinesses
\* Mutant: the listings are joined to the id list instead of being filtered
\* by it, one row per id the lookups left.
getBusinessesJoined(filters, pagination) ==
  LET facets == ResolveFacets(filters)
      matching == Where(businesses, ListConditions(filters))
      row(id) == CHOOSE r \in Range(matching) : r.id = id
      ids == SelectSeq(The(facets.businessIds),
                       LAMBDA id : \E r \in Range(matching) : r.id = id)
      rows == IF facets.businessIds = {} THEN matching
              ELSE [i \in DOMAIN ids |-> row(ids[i])]
  IN IF facets.returned THEN {<<>>}
     ELSE {WithCategories(LimitOffset(sorted, pagination.limit, pagination.offset)) :
             sorted \in OrderBy(rows)}

\* The results getBusinesses(filters, pagination) may return.
getBusinesses(filters, pagination) ==
  LET facets == ResolveFacets(filters)
  IN IF facets.returned THEN {<<>>}
     ELSE LET conditions == ListConditions(filters) \o IdConditions(facets.businessIds)
          IN {WithCategories(LimitOffset(sorted, pagination.limit, pagination.offset)) :
                sorted \in OrderBy(Where(businesses, conditions))}

\* --------------------------------------------------------- searchBusinesses
\* The conditions searchBusinesses pushes before the facet lookups.
SearchConditions(query, filters) ==
  LET searchTerm == Wrap(query)
  IN <<eq("is_active", TRUE),
       or(<<like("name", searchTerm), like("description", searchTerm),
            like("full_address", searchTerm), like("city", searchTerm),
            like("business_type", searchTerm)>>)>>
       \o When(TruthyText(filters.city), <<like("city", Wrap(The(filters.city)))>>)
       \o When(TruthyText(filters.state), <<like("state", Wrap(The(filters.state)))>>)
       \o When(TruthyFlag(filters.featured_only), <<eq("featured", TRUE)>>)
       \o When(TruthyFlag(filters.verified_only), <<eq("verified", TRUE)>>)

\* The results searchBusinesses(query, filters, pagination) may return.
searchBusinesses(query, filters, pagination) ==
  LET facets == ResolveFacets(filters)
  IN IF facets.returned THEN {<<>>}
     ELSE LET searchConditions ==
                SearchConditions(query, filters) \o IdConditions(facets.businessIds)
          IN {WithCategories(LimitOffset(sorted, pagination.limit, pagination.offset)) :
                sorted \in OrderBy(Where(businesses, searchConditions))}

\* --------------------------------------------------------- getBusinessCount
\* The conditions getBusinessCount pushes before the facet lookups.
CountConditions(filters) ==
  <<eq("is_active", TRUE)>>
    \o When(TruthyText(filters.city), <<like("city", Wrap(The(filters.city)))>>)
    \o When(TruthyText(filters.state), <<like("state", Wrap(The(filters.state)))>>)
    \o When(TruthyFlag(filters.featured_only), <<eq("featured", TRUE)>>)
    \o When(TruthyFlag(filters.verified_only), <<eq("verified", TRUE)>>)

\* db.select({ count: count() }).from(businesses).where(and(...conditions))
CountWhere(conds) == Len(Where(businesses, conds))

getBusinessCount(filters) ==
  LET facets == ResolveFacets(filters)
  IN IF facets.returned THEN 0
     ELSE CountWhere(CountConditions(filters) \o IdConditions(facets.businessIds))

\* ----------------------------------------------------------- getSearchCount
\* Mutant: the count searches the name column only.
SearchCountConditionsNameOnly(query, filters) ==
  <<eq("is_active", TRUE), like("name", Wrap(query))>>
    \o When(TruthyText(filters.city), <<like("city", Wrap(The(filters.city)))>>)
    \o When(TruthyText(filters.state), <<like("state", Wrap(The(filters.state)))>>)
    \o When(TruthyFlag(filters.featured_only), <<eq("featured", TRUE)>>)
    \o When(TruthyFlag(filters.verified_only), <<eq("verified", TRUE)>>)

\* The conditions getSearchCount pushes before the facet lookups.
SearchCountConditions(query, filters) ==
  LET searchTerm == Wrap(query)
  IN <<eq("is_active", TRUE),
       or(<<like("name", searchTerm), like("description", searchTerm),
            like("full_address", searchTerm), like("city", searchTerm),
            like("business_type", searchTerm)>>)>>
       \o When(TruthyText(filters.city), <<like("city", Wrap(The(filters.city)))>>)
       \o When(TruthyText(filters.state), <<like("state", Wrap(The(filters.state)))>>)
       \o When(TruthyFlag(filters.featured_only), <<eq("featured", TRUE)>>)
       \o When(TruthyFlag(filters.verified_only), <<eq("verified", TRUE)>>)

getSearchCount(query, filters) ==
  LET facets == ResolveFacets(filters)
  IN IF facets.returned THEN 0
     ELSE CountWhere(SearchCountConditions(query, filters)
                       \o IdConditions(facets.businessIds))

\* -------------------------------------------------------- getBusinessBySlug
\* Mutant: the slug is matched with LIKE, as the text filters are.
SlugConditionsLike(slug) == <<like("slug", slug), eq("is_active", TRUE)>>

\* The WHERE clause of the listing lookup.
SlugConditions(slug) == <<eq("slug", slug), eq("is_active", TRUE)>>

\* amenities INNER JOIN business_amenities WHERE business_id = id AND
\* amenities.is_active, as a bag.
AmenitiesOf(id) ==
  LET hits(a) == Len(Where(business_amenities,
                           <<eq("business_id", id), eq("amenity_id", a.id)>>))
      active == Where(amenities, <<eq("is_active", TRUE)>>)
      joined == {a \in Range(active) : hits(a) > 0}
  IN [a \in joined |-> hits(a)]

\* regions INNER JOIN business_regions WHERE business_id = id, as a bag.
RegionsOf(id) ==
  LET hits(r) == Len(Where(business_regions,
                           <<eq("business_id", id), eq("region_id", r.id)>>))
      joined == {r \in Range(regions) : hits(r) > 0}
  IN [r \in joined |-> hits(r)]

BusinessDetail(business) ==
  [f \in DOMAIN business \cup {"categories", "amenities", "regions"} |->
     IF f = "categories" THEN CategoriesOf(business.id)
     ELSE IF f = "amenities" THEN AmenitiesOf(business.id)
     ELSE IF f = "regions" THEN RegionsOf(business.id)
     ELSE business[f]]

\* The results getBusinessBySlug(slug) may return: {} is null.  LIMIT 1 over
\* several matching rows returns whichever the store meets first.
getBusinessBySlug(slug) ==
  LET businessResult == Where(businesses, SlugConditions(slug))
  IN IF Len(businessResult) = 0 THEN {{}}
     ELSE {{BusinessDetail(business)} : business \in Range(businessResult)}

\* ------------------------------------- RealDatabase (SQL joins, DISTINCT)
\* `INNER JOIN <junction> j ON b.id = j.business_id ... WHERE j.<key> IN (ids)`:
\* the junction rows a listing row is joined with.
JoinedRows(junction, key, opt, business) ==
  IF ~FacetSupplied(opt) THEN {0}
  ELSE {j \in DOMAIN junction :
          junction[j].business_id = business.id /\ junction[j][key] \in Range(The(opt))}

\* The rows of SELECT DISTINCT b.* over the joins, in table order: a listing
\* row is kept once when some combination of junction rows joins with it.
RealSelect(filters, conds) ==
  SelectSeq(Where(businesses, conds), LAMBDA b :
    /\ JoinedRows(business_categories, "category_id", filters.categories, b) # {}
    /\ JoinedRows(business_amenities, "amenity_id", filters.amenities, b) # {}
    /\ JoinedRows(business_regions, "region_id", filters.regions, b) # {})

\* RealDatabase.getBusinesses builds the WHERE clause from the same five
\* optional conditions as ListConditions, then
\* ORDER BY b.featured DESC, b.rating DESC LIMIT ? OFFSET ?.
RealGetBusinesses(filters, pagination) ==
  {WithCategories(LimitOffset(sorted, pagination.limit, pagination.offset)) :
     sorted \in OrderBy(RealSelect(filters, ListConditions(filters)))}

\* SELECT COUNT(DISTINCT b.id), conditions as CountConditions.
RealGetBusinessCount(filters) ==
  Cardinality({b.id : b \in Range(RealSelect(filters, CountConditions(filters)))})

\* ----------------------------- SimpleDatabase (filtering in the application)
\* getBusinessesWith<Facet>(ids).get(id) || []: the facet ids of a listing.
FacetIdsOf(junction, key, id) ==
  LET rows == Where(junction, <<eq("business_id", id)>>)
  IN [i \in DOMAIN rows |-> rows[i][key]]

\* Mutant: SimpleDatabase treats an empty facet array as "match nothing".
SimpleFacetFilterStrict(list, opt, junction, key) ==
  IF opt = {} THEN list
  ELSE SelectSeq(list, LAMBDA b :
         \E v \in Range(The(opt)) : v \in Range(FacetIdsOf(junction, key, b.id)))

\* businesses.filter(b => filters.<facet>.some(v => facetIds(b).includes(v)))
SimpleFacetFilter(list, opt, junction, key) ==
  IF ~FacetSupplied(opt) THEN list
  ELSE SelectSeq(list, LAMBDA b :
         \E v \in Range(The(opt)) : v \in Range(FacetIdsOf(junction, key, b.id)))

SimpleFilter(list, filters) ==
  SimpleFacetFilter(
    SimpleFacetFilter(
      SimpleFacetFilter(list, filters.categories, business_categories, "category_id"),
      filters.amenities, business_amenities, "amenity_id"),
    filters.regions, business_regions, "region_id")

\* Array.prototype.slice(start, end): a negative index counts from the end.
Slice(rows, start, end) ==
  LET n == Len(rows)
      clip(k) == IF k < 0 THEN (IF n + k < 0 THEN 0 ELSE n + k)
                 ELSE (IF k > n THEN n ELSE k)
  IN SubSeq(rows, clip(start) + 1, clip(end))

\* SimpleDatabase.getBusinesses: the scalar conditions and the ORDER BY in
\* SQL, the facets and the page in the application.
SimpleGetBusinesses(filters, pagination) ==
  {WithCategories(Slice(SimpleFilter(sorted, filters), pagination.offset,
                        pagination.offset + pagination.limit)) :
     sorted \in OrderBy(Where(businesses, ListConditions(filters)))}

SimpleGetBusinessCount(filters) ==
  Len(SimpleFilter(Where(businesses, CountConditions(filters)), filters))

\* ------------------------------------------------------- the facet catalog
RECURSIVE Sum(_)
Sum(ns) == IF ns = <<>> THEN 0 ELSE Head(ns) + Sum(Tail(ns))

\* count(junction.business_id) of one group of
\*   facet LEFT JOIN junction ON facet.id = junction.<key>
\*         LEFT JOIN businesses ON junction.business_id = businesses.id
\*                                 AND businesses.is_active
\* Each junction row of the facet value joins the active listings of its
\* business_id, and stays, with the listing columns null, when there is none;
\* count() counts the rows whose junction.business_id is not null.
JoinedCount(junction, key, id) ==
  LET members == Where(junction, <<eq(key, id)>>)
      listings(m) == Len(Where(businesses,
                               <<eq("id", m.business_id), eq("is_active", TRUE)>>))
  IN Sum([j \in DOMAIN members |->
            IF listings(members[j]) = 0 THEN 1 ELSE listings(members[j])])

WithCount(row, n) ==
  [f \in DOMAIN row \cup {"business_count"} |->
     IF f = "business_count" THEN n ELSE row[f]]

ByName(a, b) == TextLess(a.name, b.name)
ByCategoryThenName(a, b) ==
  TextLess(a.category, b.category) \/ (a.category = b.category /\ TextLess(a.name, b.name))
ByStateThenName(a, b) ==
  TextLess(a.state, b.state) \/ (a.state = b.state /\ TextLess(a.name, b.name))

getCategoriesWithCounts ==
  LET rows == Where(categories, <<eq("is_active", TRUE)>>)
  IN Sorted([i \in DOMAIN rows |->
               WithCount(rows[i], JoinedCount(business_categories, "category_id", rows[i].id))],
            ByName)

getAmenitiesWithCounts ==
  LET rows == Where(amenities, <<eq("is_active", TRUE)>>)
  IN Sorted([i \in DOMAIN rows |->
               WithCount(rows[i], JoinedCount(business_amenities, "amenity_id", rows[i].id))],
            ByCategoryThenName)

getRegionsWithCounts ==
  Sorted([i \in DOMAIN regions |->
            WithCount(regions[i], JoinedCount(business_regions, "region_id", regions[i].id))],
         ByStateThenName)

\* Mutant: the state is matched with LIKE, letter case ignored.
getRegionsByStateLike(state) ==
  LET rows == Where(regions, <<like("state", state)>>)
  IN Sorted([i \in DOMAIN rows |->
               WithCount(rows[i], JoinedCount(business_regions, "region_id", rows[i].id))],
            ByName)

getRegionsByState(state) ==
  LET rows == Where(regions, <<eq("state", state)>>)
  IN Sorted([i \in DOMAIN rows |->
               WithCount(rows[i], JoinedCount(business_regions, "region_id", rows[i].id))],
            ByName)

\* The catalog without counts.
getCategories == Sorted(Where(categories, <<eq("is_active", TRUE)>>), ByName)
getAmenities == Sorted(Where(amenities, <<eq("is_active", TRUE)>>), ByCategoryThenName)
getRegions == Sorted(regions, ByStateThenName)

\* select ... limit(1), then `result[0] || null`: {} is null.
FirstOrNull(rows) == IF Len(rows) = 0 THEN {{}} ELSE {{row} : row \in Range(rows)}

getCategoryBySlug(slug) ==
  FirstOrNull(Where(categories, <<eq("slug", slug), eq("is_active", TRUE)>>))
getAmenityBySlug(slug) ==
  FirstOrNull(Where(amenities, <<eq("slug", slug), eq("is_active", TRUE)>>))
getRegionBySlug(slug) == FirstOrNull(Where(regions, <<eq("slug", slug)>>))

\* a.state.localeCompare(b.state): letters compare without regard to case
\* first; the order of two texts that differ in case only is left open.
LocaleBefore(a, b) ==
  TextLess([i \in DOMAIN a.state |-> Lower(a.state[i])],
           [i \in DOMAIN b.state |-> Lower(b.state[i])])

\* Mutant: a state found among the regions only is not added to the map.
StateRowsListedOnly ==
  LET active == Where(businesses, <<eq("is_active", TRUE)>>)
  IN {[state |-> s,
       business_count |-> Len(Where(active, <<eq("state", s)>>)),
       region_count |-> Len(Where(regions, <<eq("state", s)>>))] :
        s \in {active[i].state : i \in DOMAIN active}}

\* stateMap after both forEach loops: one entry per state of businessCounts
\* (GROUP BY state over the active listings) or of regionCounts (GROUP BY
\* state over the regions), the count a source lacks being 0.
StateRows ==
  LET active == Where(businesses, <<eq("is_active", TRUE)>>)
      listed == {active[i].state : i \in DOMAIN active}
      zoned == {regions[i].state : i \in DOMAIN regions}
  IN {[state |-> s,
       business_count |-> IF s \in listed THEN Len(Where(active, <<eq("state", s)>>)) ELSE 0,
       region_count |-> IF s \in zoned THEN Len(Where(regions, <<eq("state", s)>>)) ELSE 0] :
        s \in listed \cup zoned}

getStatesWithCounts ==
  LET n == Cardinality(StateRows)
      entries == {q \in [1 .. n -> StateRows] : \A i, j \in 1 .. n : i # j => q[i] # q[j]}
  IN {q \in entries : \A i, j \in 1 .. n : i < j => ~LocaleBefore(q[j], q[i])}

\* ------------------------------------------------------------------- calls
\* The service keeps no state between calls and only reads the tables, so a
\* behaviour follows one request of one caller: the request is drawn with the
\* dataset, the operation it names runs, and its result is recorded.
\* Mutant: every supplied facet is looked up, whatever the lookups before it
\* found.
FacetQueriesAll(filters) ==
  When(FacetSupplied(filters.categories), <<"business_categories">>)
    \o When(FacetSupplied(filters.amenities), <<"business_amenities">>)
    \o When(FacetSupplied(filters.regions), <<"business_regions">>)

\* The tables each operation sends a query to, in the order of its awaits.
\* The junction lookups of the supplied facets, up to the one that ends the
\* call with an early return.
FacetQueries(filters) ==
  LET start == [businessIds |-> {}, returned |-> FALSE]
      c == FacetStep(start, filters.categories, business_categories, "category_id")
      a == FacetStep(c, filters.amenities, business_amenities, "amenity_id")
  IN When(FacetSupplied(filters.categories), <<"business_categories">>)
       \o When(~c.returned /\ FacetSupplied(filters.amenities), <<"business_amenities">>)
       \o When(~a.returned /\ FacetSupplied(filters.regions), <<"business_regions">>)

\* getBusinesses and searchBusinesses: the lookups, the select on businesses
\* and one select on categories per listing of the page.
ListQueries(filters, result) ==
  FacetQueries(filters)
    \o When(~ResolveFacets(filters).returned,
             <<"businesses">> \o [i \in DOMAIN result |-> "categories"])

\* getBusinessCount and getSearchCount: the lookups and the count.
CountQueries(filters) ==
  FacetQueries(filters) \o When(~ResolveFacets(filters).returned, <<"businesses">>)

\* getBusinessBySlug: the listing, then its categories, amenities and regions.
SlugQueries(result) ==
  <<"businesses">> \o When(result # {}, <<"categories", "amenities", "regions">>)

\* Mutant: resolving a call also deletes the membership rows it read.
ReturnAndClear(result) ==
  /\ pc = "call"
  /\ pc' = "done"
  /\ last' = [op |-> request.op, query |-> request.query, filters |-> request.filters,
              pagination |-> request.pagination, result |-> result, failed |-> FALSE]
  /\ business_categories' = <<>>
  /\ UNCHANGED <<businesses, categories, amenities, regions, business_amenities,
                 business_regions, request, prev, store_fault, frame, observed>>

\* The promise resolves with result.
Return(result) ==
  /\ pc = "call"
  /\ pc' = "done"
  /\ last' = [op |-> request.op, query |-> request.query, filters |-> request.filters,
              pagination |-> request.pagination, result |-> result, failed |-> FALSE]
  /\ UNCHANGED <<tables, request, prev, store_fault, frame, observed>>

\* The await of query number `at`, sent to table `table`, throws; nothing
\* catches it, so the promise rejects with that error.
Reject(table, at) ==
  /\ pc = "call"
  /\ pc' = "done"
  /\ last' = [op |-> request.op, query |-> request.query, filters |-> request.filters,
              pagination |-> request.pagination,
              result |-> [error |-> table, issued |-> at], failed |-> TRUE]
  /\ UNCHANGED <<tables, request, prev, store_fault, frame, observed>>

\* Mutant: the failure is caught and the call resolves with an empty result.
SettleCaught(result, queries) ==
  IF store_fault \in 1 .. Len(queries) THEN Return(<<>>) ELSE Return(result)

\* A call that sends `queries` one after the other and, if none fails,
\* resolves with result.
Settle(result, queries) ==
  IF store_fault \in 1 .. Len(queries)
  THEN Reject(queries[store_fault], store_fault)
  ELSE Return(result)

GetBusinesses ==
  /\ request.op = "getBusinesses"
  /\ \E result \in getBusinesses(request.filters, request.pagination) :
       Settle(result, ListQueries(request.filters, result))

SearchBusinesses ==
  /\ request.op = "searchBusinesses"
  /\ \E result \in searchBusinesses(request.query, request.filters, request.pagination) :
       Settle(result, ListQueries(request.filters, result))

GetBusinessCount ==
  /\ request.op = "getBusinessCount"
  /\ Settle(getBusinessCount(request.filters), CountQueries(request.filters))

GetSearchCount ==
  /\ request.op = "getSearchCount"
  /\ Settle(getSearchCount(request.query, request.filters), CountQueries(request.filters))

\* The slug travels in the request's query field.
GetBusinessBySlug ==
  /\ request.op = "getBusinessBySlug"
  /\ \E result \in getBusinessBySlug(request.query) : Settle(result, SlugQueries(result))

GetCategoriesWithCounts ==
  /\ request.op = "getCategoriesWithCounts"
  /\ \E result \in getCategoriesWithCounts : Settle(result, <<"categories">>)

GetAmenitiesWithCounts ==
  /\ request.op = "getAmenitiesWithCounts"
  /\ \E result \in getAmenitiesWithCounts : Settle(result, <<"amenities">>)

GetRegionsWithCounts ==
  /\ request.op = "getRegionsWithCounts"
  /\ \E result \in getRegionsWithCounts : Settle(result, <<"regions">>)

\* The state travels in the request's query field.
GetRegionsByState ==
  /\ request.op = "getRegionsByState"
  /\ \E result \in getRegionsByState(request.query) : Settle(result, <<"regions">>)

GetStatesWithCounts ==
  /\ request.op = "getStatesWithCounts"
  /\ \E result \in getStatesWithCounts : Settle(result, <<"businesses", "regions">>)

GetCategories ==
  /\ request.op = "getCategories"
  /\ \E result \in getCategories : Settle(result, <<"categories">>)

GetAmenities ==
  /\ request.op = "getAmenities"
  /\ \E result \in getAmenities : Settle(result, <<"amenities">>)

GetRegions ==
  /\ request.op = "getRegions"
  /\ \E result \in getRegions : Settle(result, <<"regions">>)

GetCategoryBySlug ==
  /\ request.op = "getCategoryBySlug"
  /\ \E result \in getCategoryBySlug(request.query) : Settle(result, <<"categories">>)

GetAmenityBySlug ==
  /\ request.op = "getAmenityBySlug"
  /\ \E result \in getAmenityBySlug(request.query) : Settle(result, <<"amenities">>)

GetRegionBySlug ==
  /\ request.op = "getRegionBySlug"
  /\ \E result \in getRegionBySlug(request.query) : Settle(result, <<"regions">>)

\* The queries of the other two strategies: one statement and one select
\* per listing (RealDatabase); one select, one lookup per supplied facet
\* while listings remain, and one select per listing (SimpleDatabase).
RealListQueries(result) == <<"businesses">> \o [i \in DOMAIN result |-> "categories"]

SimpleLookups(filters, conds) ==
  LET all == Where(businesses, conds)
      c == SimpleFacetFilter(all, filters.categories, business_categories, "category_id")
      a == SimpleFacetFilter(c, filters.amenities, business_amenities, "amenity_id")
  IN When(FacetSupplied(filters.categories) /\ Len(all) > 0, <<"business_categories">>)
       \o When(FacetSupplied(filters.amenities) /\ Len(c) > 0, <<"business_amenities">>)
       \o When(FacetSupplied(filters.regions) /\ Len(a) > 0, <<"business_regions">>)

RealGetBusinessesCall ==
  /\ request.op = "RealDatabase.getBusinesses"
  /\ \E result \in RealGetBusinesses(request.filters, request.pagination) :
       Settle(result, RealListQueries(result))

RealGetBusinessCountCall ==
  /\ request.op = "RealDatabase.getBusinessCount"
  /\ Settle(RealGetBusinessCount(request.filters), <<"businesses">>)

SimpleGetBusinessesCall ==
  /\ request.op = "SimpleDatabase.getBusinesses"
  /\ \E result \in SimpleGetBusinesses(request.filters, request.pagination) :
       Settle(result, <<"businesses">>
                        \o SimpleLookups(request.filters, ListConditions(request.filters))
                        \o [i \in DOMAIN result |-> "categories"])

SimpleGetBusinessCountCall ==
  /\ request.op = "SimpleDatabase.getBusinessCount"
  /\ Settle(SimpleGetBusinessCount(request.filters),
            <<"businesses">>
              \o SimpleLookups(request.filters, CountConditions(request.filters)))

\* ------------------------------------------------------------- the callers
ListOps == {"getBusinesses", "searchBusinesses"}
CountOps == {"getBusinessCount", "getSearchCount"}

NoPagination == [limit |-> 0, offset |-> 0]
FullPage == [limit |-> NumBusinesses, offset |-> 0]

Request(op, query, filters, pagination) ==
  [op |-> op, query |-> query, filters |-> filters, pagination |-> pagination]

\* What callers pass.  Facet arrays: absent, empty, one id, two ids, the id
\* of an inactive category, an id no row holds.
CategoryArgs == {{}, {<<>>}, {<<1>>}, {<<1, 2>>}, {<<3>>}, {<<9>>}}
AmenityArgs == {{}, {<<>>}, {<<1>>}, {<<2>>}}
RegionArgs == {{}, {<<>>}, {<<1>>}}

\* A city or a state substring (in another case than the stored text), a
\* rating floor, the two flags.
ScalarArgs ==
  {[city |-> l.city, state |-> l.state, rating_min |-> r, featured_only |-> f,
    verified_only |-> v] :
     l \in {[city |-> {}, state |-> {}], [city |-> {<<"S","Y","D">>}, state |-> {}],
            [city |-> {}, state |-> {<<"v","i","c">>}]},
     r \in {{}, {5}}, f \in {{}, {TRUE}}, v \in {{}, {TRUE}}}

NoScalars ==
  [city |-> {}, state |-> {}, rating_min |-> {}, featured_only |-> {}, verified_only |-> {}]

Filter(scalars, c, a, r) ==
  [city |-> scalars.city, state |-> scalars.state, rating_min |-> scalars.rating_min,
   featured_only |-> scalars.featured_only, verified_only |-> scalars.verified_only,
   categories |-> c, amenities |-> a, regions |-> r]

NoFilters == Filter(NoScalars, {}, {}, {})

\* Every facet combination without scalars.
FacetFilters ==
  {Filter(NoScalars, c, a, r) : c \in CategoryArgs, a \in AmenityArgs, r \in RegionArgs}
\* Every scalar combination, without facets and with a category and an amenity.
ScalarFilters ==
  {Filter(s, {}, {}, {}) : s \in ScalarArgs}
    \cup {Filter(s, {<<1, 2>>}, {<<1>>}, {<<>>}) : s \in ScalarArgs}
Filters == FacetFilters \cup ScalarFilters

Queries == {<<>>, <<"s","y","d">>, <<"_","a","r">>, <<"z","z">>}
Slugs == {<<"v", DigitChar[i]>> : i \in 1 .. NumBusinesses + 1} \cup {<<"V","1">>}

\* Facet filters a search is made with.
SearchFacetFilters ==
  {Filter(NoScalars, c, a, {}) : c \in {{}, {<<>>}, {<<1>>}}, a \in {{<<>>}, {<<1>>}}}

CatalogOps == {"getCategoriesWithCounts", "getAmenitiesWithCounts", "getRegionsWithCounts"}
PlainCatalogOps == {"getCategories", "getAmenities", "getRegions"}
FacetSlugOps == {"getCategoryBySlug", "getAmenityBySlug", "getRegionBySlug"}
FacetSlugs == {<<"c","a","s","i","n","o">>, <<"s","p","a">>, <<"m","e","l">>, <<"z">>}
States == {<<"N","S","W">>, <<"V","I","C">>, <<"Q","L","D">>}

Requests ==
  {Request("getBusinesses", <<>>, f, FullPage) : f \in Filters}
    \cup {Request("getBusinesses", <<>>, f, [limit |-> 1, offset |-> 1]) :
            f \in {NoFilters, Filter(NoScalars, {<<1, 2>>}, {}, {})}}
    \cup {Request("searchBusinesses", q, Filter(s, {}, {}, {}), FullPage) :
            q \in Queries, s \in ScalarArgs}
    \cup {Request("searchBusinesses", q, f, FullPage) :
            q \in {<<>>, <<"_","a","r">>}, f \in SearchFacetFilters}
    \cup {Request("searchBusinesses", q, NoFilters, [limit |-> 1, offset |-> 1]) :
            q \in {<<>>, <<"s","y","d">>}}
    \cup {Request(op, <<>>, NoFilters, p) :
            op \in ListOps, p \in {[limit |-> -1, offset |-> 0], [limit |-> 2, offset |-> -1]}}
    \cup {Request("getBusinessCount", <<>>, f, NoPagination) : f \in Filters}
    \cup {Request("getSearchCount", q, Filter(s, {}, {}, {}), NoPagination) :
            q \in Queries, s \in ScalarArgs}
    \cup {Request("getSearchCount", q, f, NoPagination) :
            q \in {<<>>, <<"_","a","r">>}, f \in SearchFacetFilters}
    \cup {Request("getBusinessBySlug", s, NoFilters, NoPagination) : s \in Slugs}
    \cup {Request(op, <<>>, NoFilters, NoPagination) : op \in CatalogOps}
    \cup {Request("getRegionsByState", s, NoFilters, NoPagination) : s \in States}
    \cup {Request("getStatesWithCounts", <<>>, NoFilters, NoPagination)}
    \cup {Request(op, <<>>, NoFilters, NoPagination) : op \in PlainCatalogOps}
    \cup {Request(op, s, NoFilters, NoPagination) : op \in FacetSlugOps, s \in FacetSlugs}

UsesFacets(filters) ==
  filters.categories # {} \/ filters.amenities # {} \/ filters.regions # {}

\* A request that reads no junction table is paired with one membership
\* relation only.
RequestsOver(m) ==
  IF m = ScenarioMemberships THEN Requests
  ELSE {r \in Requests :
          \/ UsesFacets(r.filters)
          \/ r.op \in CatalogOps \cup {"getBusinessBySlug", "getRegionsByState"}}

Init ==
  /\ \E m \in Memberships : InitStore(m) /\ request \in RequestsOver(m)
  /\ pc = "call"
  /\ last = NoCall
  /\ prev = NoCall
  /\ store_fault = 0
  /\ frame = NoFrame
  /\ observed = Unobserved

Next ==
  \/ GetBusinesses
  \/ SearchBusinesses
  \/ GetBusinessCount
  \/ GetSearchCount
  \/ GetBusinessBySlug
  \/ GetCategoriesWithCounts
  \/ GetAmenitiesWithCounts
  \/ GetRegionsWithCounts
  \/ GetRegionsByState
  \/ GetStatesWithCounts
  \/ GetCategories
  \/ GetAmenities
  \/ GetRegions
  \/ GetCategoryBySlug
  \/ GetAmenityBySlug
  \/ GetRegionBySlug

Spec == Init /\ [][Next]_vars

\* ------------------------------------------------------ paging through a list
\* A caller that reads a listing page by page: the first page at offset 0,
\* then the page that starts where the first one ended, same filter and query.
PageFilters ==
  {NoFilters,
   Filter([NoScalars EXCEPT !.featured_only = {TRUE}], {}, {}, {}),
   Filter(NoScalars, {<<1>>}, {}, {})}

PageRequests ==
  {Request("getBusinesses", <<>>, f, [limit |-> k, offset |-> 0]) :
     f \in PageFilters, k \in 0 .. MaxPage}
    \cup {Request("searchBusinesses", q, f, [limit |-> k, offset |-> 0]) :
            q \in {<<>>, <<"s", "y", "d">>}, f \in PageFilters, k \in 1 .. MaxPage}

InitPages ==
  /\ InitStore(ScenarioMemberships)
  /\ request \in PageRequests
  /\ pc = "call"
  /\ last = NoCall
  /\ prev = NoCall
  /\ store_fault = 0
  /\ frame = NoFrame
  /\ observed = Unobserved

NextPage ==
  /\ pc = "done"
  /\ prev = NoCall
  /\ last.op \in ListOps
  /\ request' = [request EXCEPT !.pagination.offset = request.pagination.limit]
  /\ prev' = last
  /\ pc' = "call"
  /\ UNCHANGED <<tables, last, store_fault, frame, observed>>

NextPages ==
  \/ GetBusinesses
  \/ SearchBusinesses
  \/ NextPage

SpecPages == InitPages /\ [][NextPages]_vars

\* ------------------------------------------------------ a store that fails
\* Calls made against a store that fails one of the queries it is sent.
FaultFilters ==
  {NoFilters,
   Filter(NoScalars, {<<1, 2>>}, {<<1>>}, {<<1>>}),
   Filter(NoScalars, {<<9>>}, {<<1>>}, {}),
   Filter(NoScalars, {<<3>>}, {<<2>>}, {<<1>>}),
   Filter([NoScalars EXCEPT !.featured_only = {TRUE}], {}, {<<1, 2>>}, {})}

FaultRequests ==
  {Request("getBusinesses", <<>>, f, FullPage) : f \in FaultFilters}
    \cup {Request("searchBusinesses", <<"s","y","d">>, f, FullPage) : f \in FaultFilters}
    \cup {Request("getBusinessCount", <<>>, f, NoPagination) : f \in FaultFilters}
    \cup {Request("getSearchCount", <<"s","y","d">>, f, NoPagination) : f \in FaultFilters}
    \cup {Request("getBusinessBySlug", s, NoFilters, NoPagination) :
            s \in {<<"v","1">>, <<"v","2">>, <<"z">>}}
    \cup {Request(op, <<>>, NoFilters, NoPagination) :
            op \in CatalogOps \cup {"getStatesWithCounts"}}
    \cup {Request("getRegionsByState", <<"N","S","W">>, NoFilters, NoPagination)}
    \cup {Request(op, <<>>, NoFilters, NoPagination) : op \in PlainCatalogOps}
    \cup {Request(op, s, NoFilters, NoPagination) :
            op \in FacetSlugOps, s \in {<<"s","p","a">>, <<"m","e","l">>}}

InitFaults ==
  /\ InitStore(ScenarioMemberships)
  /\ request \in FaultRequests
  /\ pc = "call"
  /\ last = NoCall
  /\ prev = NoCall
  /\ store_fault \in 0 .. MaxFault
  /\ frame = NoFrame
  /\ observed = Unobserved

SpecFaults == InitFaults /\ [][Next]_vars

\* ------------------------------------------------- the same call made twice
\* A caller that makes the same call more than once at a time
\* (Promise.all over identical calls) and compares what they return.  The
\* methods share no variable and write nothing, so each invocation is the
\* handler run against the same store.
RepeatRequests ==
  {Request("getBusinesses", <<>>, f, FullPage) : f \in PageFilters}
    \cup {Request("getBusinessCount", <<>>, f, NoPagination) :
            f \in PageFilters \cup {Filter([NoScalars EXCEPT !.verified_only = {TRUE}], {}, {}, {})}}

InitRepeat ==
  /\ InitStore(ScenarioMemberships)
  /\ request \in RepeatRequests
  /\ pc = "call"
  /\ last = NoCall
  /\ prev = NoCall
  /\ store_fault = 0
  /\ frame = NoFrame
  /\ observed = Unobserved

CallAgain ==
  /\ pc = "done"
  /\ prev = NoCall
  /\ prev' = last
  /\ pc' = "call"
  /\ UNCHANGED <<tables, request, last, store_fault, frame, observed>>

NextRepeat ==
  \/ GetBusinesses
  \/ GetBusinessCount
  \/ CallAgain

SpecRepeat == InitRepeat /\ [][NextRepeat]_vars

\* ------------------------------------------- the three store-access services
\* The same list and count calls made on TursoDatabase, RealDatabase and
\* SimpleDatabase.
OtherListOps == {"RealDatabase.getBusinesses", "SimpleDatabase.getBusinesses"}
OtherCountOps == {"RealDatabase.getBusinessCount", "SimpleDatabase.getBusinessCount"}

StrategyFilters == FacetFilters \cup {f \in ScalarFilters : UsesFacets(f)}

StrategyRequests ==
  {Request(op, <<>>, f, FullPage) :
     op \in OtherListOps \cup {"getBusinesses"}, f \in StrategyFilters}
    \cup {Request(op, <<>>, f, NoPagination) :
            op \in OtherCountOps \cup {"getBusinessCount"}, f \in StrategyFilters}

InitStrategies ==
  /\ \E m \in {ScenarioMemberships, RepeatedMemberships} : InitStore(m)
  /\ request \in StrategyRequests
  /\ pc = "call"
  /\ last = NoCall
  /\ prev = NoCall
  /\ store_fault = 0
  /\ frame = NoFrame
  /\ observed = Unobserved

NextStrategies ==
  \/ GetBusinesses
  \/ GetBusinessCount
  \/ RealGetBusinessesCall
  \/ RealGetBusinessCountCall
  \/ SimpleGetBusinessesCall
  \/ SimpleGetBusinessCountCall

SpecStrategies == InitStrategies /\ [][NextStrategies]_vars

\* ------------------------------------------------------ filtering by rating
\* Listings rated 3, 4 and 5 listed with a minimum rating (the "should
\* filter by minimum rating" call), 0 included.
RatedTables ==
  { [i \in BusinessIds |-> BusinessRow(i, p[i].is_active, p[i].featured, p[i].rating)] :
      p \in [BusinessIds -> [is_active : BOOLEAN, featured : BOOLEAN, rating : {3, 4, 5}]] }

RatingRequests ==
  {Request("getBusinesses", <<>>,
           Filter([NoScalars EXCEPT !.rating_min = {r}], {}, {}, {}), FullPage) :
     r \in {0, 3, 4, 5}}

InitRatings ==
  /\ businesses \in RatedTables
  /\ categories = CategoryRows
  /\ amenities = AmenityRows
  /\ regions = RegionRows
  /\ business_categories = Junction("category_id", ScenarioMemberships.cats)
  /\ business_amenities = Junction("amenity_id", ScenarioMemberships.amens)
  /\ business_regions = Junction("region_id", ScenarioMemberships.regs)
  /\ request \in RatingRequests
  /\ pc = "call"
  /\ last = NoCall
  /\ prev = NoCall
  /\ store_fault = 0
  /\ frame = NoFrame
  /\ observed = Unobserved

NextRatings == GetBusinesses

SpecRatings == InitRatings /\ [][NextRatings]_vars

\* ------------------------------------------------- regional browsing journey
\* getStatesWithCounts, then getRegionsByState for a state of its result, on
\* the same store.  The regions table holds any of these rows: two regions of
\* one state, a region of another state, a region whose state is written in
\* lower case.
JourneyRegionRows ==
  RegionRows \o
  << [id |-> 3, name |-> <<"R","y","d","e">>, slug |-> <<"r","y","d","e">>,
      state |-> <<"N","S","W">>, country |-> <<"A","U">>],
     [id |-> 4, name |-> <<"B","a","y">>, slug |-> <<"b","a","y">>,
      state |-> <<"n","s","w">>, country |-> <<"A","U">>] >>

RegionTables ==
  {SelectSeq(JourneyRegionRows, LAMBDA row : row.id \in ids) :
     ids \in SUBSET {JourneyRegionRows[i].id : i \in DOMAIN JourneyRegionRows}}

InitJourney ==
  /\ businesses \in BusinessTables
  /\ categories = CategoryRows
  /\ amenities = AmenityRows
  /\ regions \in RegionTables
  /\ business_categories = Junction("category_id", ScenarioMemberships.cats)
  /\ business_amenities = Junction("amenity_id", ScenarioMemberships.amens)
  /\ business_regions = Junction("region_id", ScenarioMemberships.regs)
  /\ request = Request("getStatesWithCounts", <<>>, NoFilters, NoPagination)
  /\ pc = "call"
  /\ last = NoCall
  /\ prev = NoCall
  /\ store_fault = 0
  /\ frame = NoFrame
  /\ observed = Unobserved

\* const selectedState = statesWithCounts[i]; the next call is
\* getRegionsByState(selectedState.state).
SelectState ==
  /\ pc = "done"
  /\ prev = NoCall
  /\ last.op = "getStatesWithCounts"
  /\ \E i \in DOMAIN last.result :
       request' = Request("getRegionsByState", last.result[i].state, NoFilters, NoPagination)
  /\ prev' = last
  /\ pc' = "call"
  /\ UNCHANGED <<tables, last, store_fault, frame, observed>>

NextJourney ==
  \/ GetStatesWithCounts
  \/ SelectState
  \/ GetRegionsByState

SpecJourney == InitJourney /\ [][NextJourney]_vars

\* -------------------------------------- getBusinesses beside an external writer
\* getBusinesses taken one query at a time: every await yields, and a writer
\* outside the service may change the store before the next query is sent.
\* pc walks "call" (the categories block), "amenities", "regions", "select",
\* "attach", "done".
WriterTables ==
  {t \in BusinessTables :
     /\ \A i \in DOMAIN t : ~t[i].featured \/ ~t[i].is_active
     /\ t[1].is_active /\ t[2].is_active}

WriterRequests ==
  {Request("getBusinesses", <<>>, f, FullPage) :
     f \in {NoFilters,
            Filter(NoScalars, {<<1, 2>>}, {<<1>>}, {}),
            Filter([NoScalars EXCEPT !.rating_min = {5}], {<<1>>}, {}, {}),
            Filter([NoScalars EXCEPT !.featured_only = {TRUE}], {}, {}, {<<1>>})}}

InitWriter ==
  /\ businesses \in WriterTables
  /\ categories = CategoryRows
  /\ amenities = AmenityRows
  /\ regions = RegionRows
  /\ business_categories = Junction("category_id", ScenarioMemberships.cats)
  /\ business_amenities = Junction("amenity_id", ScenarioMemberships.amens)
  /\ business_regions = Junction("region_id", ScenarioMemberships.regs)
  /\ request \in WriterRequests
  /\ pc = "call"
  /\ last = NoCall
  /\ prev = NoCall
  /\ store_fault = 0
  /\ frame = NoFrame
  /\ observed = Unobserved

\* return businessResults / return []
Resolve(result) ==
  /\ pc' = "done"
  /\ last' = [op |-> request.op, query |-> request.query, filters |-> request.filters,
              pagination |-> request.pagination, result |-> result, failed |-> FALSE]

\* One `if (filters.<facet> && ...)` block: the lookup is sent if the facet
\* is supplied, businessIds is set or intersected, and the call returns []
\* when no id is left.
LookupStep(field, junction, key, next) ==
  LET opt == request.filters[field]
      acc == FacetStep([businessIds |-> frame.businessIds, returned |-> FALSE],
                       opt, junction, key)
  IN /\ frame' = [frame EXCEPT !.businessIds = acc.businessIds]
     /\ observed' = IF FacetSupplied(opt) THEN [observed EXCEPT ![field] = {junction}]
                    ELSE observed
     /\ IF acc.returned THEN Resolve(<<>>) ELSE pc' = next /\ UNCHANGED last
     /\ UNCHANGED <<tables, request, prev, store_fault>>

LookupCategories ==
  /\ pc = "call"
  /\ LookupStep("categories", business_categories, "category_id", "amenities")

LookupAmenities ==
  /\ pc = "amenities"
  /\ LookupStep("amenities", business_amenities, "amenity_id", "regions")

LookupRegions ==
  /\ pc = "regions"
  /\ LookupStep("regions", business_regions, "region_id", "select")

\* Mutant: with an id list at hand the listings are selected by id alone.
SelectBusinessesByIdAlone ==
  /\ pc = "select"
  /\ LET conditions == IF frame.businessIds # {} THEN IdConditions(frame.businessIds)
                       ELSE ListConditions(request.filters)
     IN \E sorted \in OrderBy(Where(businesses, conditions)) :
          frame' = [frame EXCEPT !.businessList =
                      LimitOffset(sorted, request.pagination.limit, request.pagination.offset)]
  /\ observed' = [observed EXCEPT !.businesses = {businesses}]
  /\ pc' = "attach"
  /\ UNCHANGED <<tables, request, last, prev, store_fault>>

\* The id filter is pushed onto the conditions and the listings are selected.
SelectBusinesses ==
  /\ pc = "select"
  /\ LET conditions == ListConditions(request.filters) \o IdConditions(frame.businessIds)
     IN \E sorted \in OrderBy(Where(businesses, conditions)) :
          frame' = [frame EXCEPT !.businessList =
                      LimitOffset(sorted, request.pagination.limit, request.pagination.offset)]
  /\ observed' = [observed EXCEPT !.businesses = {businesses}]
  /\ pc' = "attach"
  /\ UNCHANGED <<tables, request, last, prev, store_fault>>

\* One turn of `for (const business of businessList)`: the categories of the
\* next listing are selected and the result is pushed.
AttachCategories ==
  /\ pc = "attach"
  /\ Len(frame.businessResults) < Len(frame.businessList)
  /\ frame' = [frame EXCEPT !.businessResults =
                 Append(@, BusinessResult(frame.businessList[Len(@) + 1]))]
  /\ UNCHANGED <<tables, request, pc, last, prev, store_fault, observed>>

\* The loop is over: return businessResults.
ReturnResults ==
  /\ pc = "attach"
  /\ Len(frame.businessResults) = Len(frame.businessList)
  /\ Resolve(frame.businessResults)
  /\ UNCHANGED <<tables, request, prev, store_fault, frame, observed>>

\* The writer, while the call is pending: at most MaxWrites changes.
Writing == pc # "done" /\ observed.writes < MaxWrites
Written == observed' = [observed EXCEPT !.writes = @ + 1]

\* A listing is activated or deactivated, featured or not, rated anew.
WriteListing ==
  /\ Writing
  /\ \E i \in DOMAIN businesses :
       \/ businesses' = [businesses EXCEPT ![i].is_active = ~@]
       \/ businesses' = [businesses EXCEPT ![i].featured = ~@]
       \/ \E r \in Ratings \ {businesses[i].rating} :
            businesses' = [businesses EXCEPT ![i].rating = r]
  /\ Written
  /\ UNCHANGED <<categories, amenities, regions, business_categories, business_amenities,
                 business_regions, request, pc, last, prev, store_fault, frame>>

Without(junction, j) == SubSeq(junction, 1, j - 1) \o SubSeq(junction, j + 1, Len(junction))

\* A membership row is deleted or inserted.
WriteMembership ==
  /\ Writing
  /\ \/ /\ \/ \E j \in DOMAIN business_categories :
                 business_categories' = Without(business_categories, j)
            \/ \E b \in BusinessIds, c \in {1, 3} :
                 business_categories' =
                   Append(business_categories, [business_id |-> b, category_id |-> c])
         /\ UNCHANGED <<business_amenities, business_regions>>
     \/ /\ \/ \E j \in DOMAIN business_amenities :
                 business_amenities' = Without(business_amenities, j)
            \/ \E b \in BusinessIds :
                 business_amenities' =
                   Append(business_amenities, [business_id |-> b, amenity_id |-> 1])
         /\ UNCHANGED <<business_categories, business_regions>>
     \/ /\ \/ \E j \in DOMAIN business_regions :
                 business_regions' = Without(business_regions, j)
            \/ \E b \in BusinessIds :
                 business_regions' =
                   Append(business_regions, [business_id |-> b, region_id |-> 1])
         /\ UNCHANGED <<business_categories, business_amenities>>
  /\ Written
  /\ UNCHANGED <<businesses, categories, amenities, regions,
                 request, pc, last, prev, store_fault, frame>>

\* A category is activated or deactivated.
WriteCategory ==
  /\ Writing
  /\ \E i \in DOMAIN categories : categories' = [categories EXCEPT ![i].is_active = ~@]
  /\ Written
  /\ UNCHANGED <<businesses, amenities, regions, business_categories, business_amenities,
                 business_regions, request, pc, last, prev, store_fault, frame>>

NextWriter ==
  \/ LookupCategories
  \/ LookupAmenities
  \/ LookupRegions
  \/ SelectBusinesses
  \/ AttachCategories
  \/ ReturnResults
  \/ WriteListing
  \/ WriteMembership
  \/ WriteCategory

SpecWriter == InitWriter /\ [][NextWriter]_vars

\* =================================================================== claims
\* What the claims are stated against: the rows as stored, membership read
\* off the junction tables, and substring matching written out.
Returned == pc = "done"

Stored(id) == CHOOSE row \in Range(businesses) : row.id = id
ActiveIds == {row.id : row \in {r \in Range(businesses) : r.is_active}}
ResultIds(result) == {result[i].id : i \in DOMAIN result}

\* s occurs in text, letter case ignored.
ContainsText(text, s) ==
  \E k \in 0 .. Len(text) - Len(s) :
    \A i \in 1 .. Len(s) : Lower(text[k + i]) = Lower(s[i])

\* Listing id holds membership in one of the ids of a supplied facet; an
\* absent or empty facet constrains nothing.
InFacet(opt, junction, key, id) ==
  opt = {} \/ The(opt) = <<>>
    \/ \E j \in DOMAIN junction :
         junction[j].business_id = id /\ junction[j][key] \in Range(The(opt))

MatchesFacets(filters, id) ==
  /\ InFacet(filters.categories, business_categories, "category_id", id)
  /\ InFacet(filters.amenities, business_amenities, "amenity_id", id)
  /\ InFacet(filters.regions, business_regions, "region_id", id)

MatchesScalars(filters, row) ==
  /\ filters.city # {} => ContainsText(row.city, The(filters.city))
  /\ filters.state # {} => ContainsText(row.state, The(filters.state))
  /\ filters.rating_min # {} => row.rating >= The(filters.rating_min)
  /\ TRUE \in filters.featured_only => row.featured
  /\ TRUE \in filters.verified_only => row.verified

CoversAll(pagination) == pagination.offset = 0 /\ pagination.limit >= Len(businesses)

\* C1: every listing a list operation or getBusinessBySlug returns is stored
\* with is_active = true, and a count never exceeds the number of active
\* listings; without filters it is exactly that number.
C1_ActiveOnly ==
  Returned =>
    /\ last.op \in ListOps =>
         \A i \in DOMAIN last.result :
           last.result[i].is_active /\ last.result[i].id \in ActiveIds
    /\ last.op = "getBusinessBySlug" =>
         \A d \in last.result : d.is_active /\ d.id \in ActiveIds
    /\ last.op \in CountOps => last.result <= Cardinality(ActiveIds)
    /\ last.op = "getBusinessCount" /\ last.filters = NoFilters =>
         last.result = Cardinality(ActiveIds)

\* C1 witness: three listings, one of them inactive, counted as 2.
C1_Witness ==
  /\ Returned /\ last.op = "getBusinessCount" /\ last.filters = NoFilters
  /\ Len(businesses) = 3 /\ Cardinality(ActiveIds) = 2 /\ last.result = 2

\* A facet that is supplied with at least one id.
Constrains(opt) == opt # {} /\ The(opt) # <<>>
SomeFacet(filters) ==
  Constrains(filters.categories) \/ Constrains(filters.amenities)
    \/ Constrains(filters.regions)

\* C2: with a facet supplied, the full result of getBusinesses holds exactly
\* the active listings that are members of one of the supplied ids of every
\* supplied facet (OR within a facet, AND across facets) and satisfy the
\* scalar predicates.
C2_FacetUnionIntersection ==
  Returned /\ last.op = "getBusinesses" /\ CoversAll(last.pagination)
           /\ SomeFacet(last.filters) =>
    ResultIds(last.result) =
      {id \in ActiveIds : /\ MatchesFacets(last.filters, id)
                          /\ MatchesScalars(last.filters, Stored(id))}

\* C2 witness: L1(cat 1, amenity 1), L2(cat 1, amenity 2), L3(cat 3, amenity 1),
\* all active, filter {categories [1, 2], amenities [1]}: only L1.
C2_Witness ==
  /\ Returned /\ last.op = "getBusinesses"
  /\ business_categories = Junction("category_id", ScenarioMemberships.cats)
  /\ last.filters.categories = {<<1, 2>>} /\ last.filters.amenities = {<<1>>}
  /\ {1, 2, 3} \subseteq ActiveIds
  /\ ResultIds(last.result) = {1}

\* C3: the count equals the length of the full list, and no page is longer
\* than the count, for any filter (rating_min included).
C3_CountEqualsList ==
  Returned /\ last.op = "getBusinesses" =>
    /\ Len(last.result) <= getBusinessCount(last.filters)
    /\ CoversAll(last.pagination) => Len(last.result) = getBusinessCount(last.filters)

\* An explicitly empty facet array replaced by an absent one.
Unconstrain(opt) == IF opt = {<<>>} THEN {} ELSE opt
WithoutEmptyFacets(filters) ==
  [filters EXCEPT !.categories = Unconstrain(@), !.amenities = Unconstrain(@),
                  !.regions = Unconstrain(@)]
HasEmptyFacet(filters) == filters # WithoutEmptyFacets(filters)

\* C4: a call whose filter holds an explicitly empty facet array returns what
\* the same call returns with that field left unset.
C4_EmptyFacetIsUnset ==
  Returned /\ HasEmptyFacet(last.filters) =>
    LET unset == WithoutEmptyFacets(last.filters)
    IN CASE last.op = "getBusinesses" ->
              last.result \in getBusinesses(unset, last.pagination)
         [] last.op = "searchBusinesses" ->
              last.result \in searchBusinesses(last.query, unset, last.pagination)
         [] last.op = "getBusinessCount" -> last.result = getBusinessCount(unset)
         [] last.op = "getSearchCount" -> last.result = getSearchCount(last.query, unset)
         [] OTHER -> TRUE

\* C4 witness: categories = [] and nothing else returns listings.
C4_Witness ==
  /\ Returned /\ last.op = "getBusinesses"
  /\ last.filters = Filter(NoScalars, {<<>>}, {}, {})
  /\ Len(last.result) >= 2

\* C5: every listing searchBusinesses returns satisfies the scalar predicates
\* of the filter: rating >= rating_min, featured when featured_only is set,
\* verified when verified_only is set.
C5_SearchScalarPredicates ==
  Returned /\ last.op = "searchBusinesses" =>
    \A i \in DOMAIN last.result :
      /\ last.filters.rating_min # {} => last.result[i].rating >= The(last.filters.rating_min)
      /\ TRUE \in last.filters.featured_only => last.result[i].featured
      /\ TRUE \in last.filters.verified_only => last.result[i].verified

\* C6: in every result list, for positions i < j: featured before
\* non-featured, or equal featured and rating not increasing.
C6_FeaturedThenRating ==
  Returned /\ last.op \in ListOps =>
    \A i, j \in DOMAIN last.result :
      i < j =>
        \/ last.result[i].featured /\ ~last.result[j].featured
        \/ /\ last.result[i].featured = last.result[j].featured
           /\ last.result[i].rating >= last.result[j].rating

\* C6 witness: a featured listing ahead of two others that are stored before
\* it, the two in falling rating.
C6_Witness ==
  /\ Returned /\ last.op \in ListOps /\ Len(last.result) = 3
  /\ last.result[1].featured /\ ~last.result[2].featured
  /\ last.result[2].rating > last.result[3].rating
  /\ last.result[1].id > last.result[2].id

UniqueSlugs ==
  \A a, b \in Range(businesses) : a.slug = b.slug => a.id = b.id

\* C10: with unique slugs, getBusinessBySlug of an active listing's slug
\* returns that listing (id, name, slug, rating and flags), and of a slug no
\* listing holds returns null.
C10_SlugRoundTrip ==
  UniqueSlugs /\ Returned /\ last.op = "getBusinessBySlug" =>
    LET holders == {row \in Range(businesses) : row.slug = last.query}
    IN /\ \A L \in holders :
            L.is_active =>
              /\ last.result # {}
              /\ \A d \in last.result :
                   /\ d.id = L.id /\ d.name = L.name /\ d.slug = L.slug
                   /\ d.rating = L.rating /\ d.is_active = L.is_active
                   /\ d.featured = L.featured /\ d.verified = L.verified
       /\ holders = {} => last.result = {}

\* C10 witness: the slug of the active listing 2 returns listing 2.
C10_Witness ==
  /\ Returned /\ last.op = "getBusinessBySlug" /\ last.query = <<"v", "2">>
  /\ \E d \in last.result : d.id = 2 /\ d.slug = last.query

\* The listings with is_active = true that hold membership in facet value id.
ActiveMembers(junction, key, id) ==
  {b \in ActiveIds : \E j \in DOMAIN junction :
                       junction[j].business_id = b /\ junction[j][key] = id}

CatalogJunction(op) ==
  IF op = "getCategoriesWithCounts" THEN business_categories
  ELSE IF op = "getAmenitiesWithCounts" THEN business_amenities
  ELSE business_regions
CatalogKey(op) ==
  IF op = "getCategoriesWithCounts" THEN "category_id"
  ELSE IF op = "getAmenitiesWithCounts" THEN "amenity_id"
  ELSE "region_id"

\* C8: the business_count of every facet value a count-annotated catalog
\* operation returns is the number of distinct active listings that hold
\* membership in it.
C8_CountsDistinctActive ==
  Returned /\ last.op \in CatalogOps =>
    \A i \in DOMAIN last.result :
      last.result[i].business_count =
        Cardinality(ActiveMembers(CatalogJunction(last.op), CatalogKey(last.op),
                                  last.result[i].id))

\* The filter that selects one facet value.
OnlyFacet(op, id) ==
  IF op = "getCategoriesWithCounts" THEN Filter(NoScalars, {<<id>>}, {}, {})
  ELSE IF op = "getAmenitiesWithCounts" THEN Filter(NoScalars, {}, {<<id>>}, {})
  ELSE Filter(NoScalars, {}, {}, {<<id>>})

\* C9: getBusinessCount filtered on one facet value alone equals the
\* business_count annotated on it by getCategoriesWithCounts,
\* getAmenitiesWithCounts and getRegionsByState.
C9_FilterCountEqualsAnnotated ==
  Returned /\ last.op \in {"getCategoriesWithCounts", "getAmenitiesWithCounts",
                           "getRegionsByState"} =>
    \A i \in DOMAIN last.result :
      getBusinessCount(OnlyFacet(last.op, last.result[i].id))
        = last.result[i].business_count

\* C7: two consecutive pages of the same listing, read from an unchanged
\* store with the same filter (and query), share no listing id.
C7_PagesDisjoint ==
  Returned /\ prev # NoCall =>
    ResultIds(prev.result) \cap ResultIds(last.result) = {}

\* A non-empty facet none of whose ids occurs in the junction table.
NoMembership(opt, junction, key) ==
  /\ opt # {}
  /\ The(opt) # <<>>
  /\ \A j \in DOMAIN junction : junction[j][key] \notin Range(The(opt))

HasUnmatchedFacet(filters) ==
  \/ NoMembership(filters.categories, business_categories, "category_id")
  \/ NoMembership(filters.amenities, business_amenities, "amenity_id")
  \/ NoMembership(filters.regions, business_regions, "region_id")

\* C11: a filter with a non-empty facet whose ids match no membership row
\* makes getBusinesses return the empty list and getBusinessCount return 0,
\* whatever other facets and scalar filters accompany it.
C11_UnmatchedFacetIsEmpty ==
  Returned /\ HasUnmatchedFacet(last.filters) =>
    /\ last.op = "getBusinesses" => last.result = <<>>
    /\ last.op = "getBusinessCount" => last.result = 0

\* An unmatched facet was supplied to a list call over a store in which the
\* same filter without its facets selects some listing.
C11_Witness ==
  /\ Returned
  /\ last.op = "getBusinesses"
  /\ HasUnmatchedFacet(last.filters)
  /\ TruthyFlag(last.filters.featured_only)
  /\ getBusinessCount(Filter([city |-> last.filters.city, state |-> last.filters.state,
                              rating_min |-> last.filters.rating_min,
                              featured_only |-> last.filters.featured_only,
                              verified_only |-> last.filters.verified_only],
                             {}, {}, {})) > 0
  /\ last.result = <<>>

\* C12: with the empty query, searchBusinesses returns what getBusinesses
\* returns for the same filter and pagination, and getSearchCount equals
\* getBusinessCount for the same filter.
C12_EmptyQueryIsListMode ==
  Returned /\ last.query = <<>> =>
    /\ last.op = "searchBusinesses" =>
         last.result \in getBusinesses(last.filters, last.pagination)
    /\ last.op = "getSearchCount" => last.result = getBusinessCount(last.filters)

MemberRows(table, junction, key, id) ==
  {row \in Range(table) :
     \E j \in DOMAIN junction : junction[j].business_id = id /\ junction[j][key] = row.id}

\* C14: getBusinessBySlug returns null exactly when no active listing has
\* the slug; otherwise it returns such a listing with its active member
\* categories, its active member amenities and all its member regions.
C14_SlugDetail ==
  Returned /\ last.op = "getBusinessBySlug" =>
    LET holders == {row \in Range(businesses) : row.slug = last.query /\ row.is_active}
    IN /\ last.result = {} <=> holders = {}
       /\ last.result # {} =>
            LET detail == The(last.result)
            IN /\ \E row \in holders :
                    \A f \in DOMAIN row : detail[f] = row[f]
               /\ DOMAIN detail.categories =
                    {c \in MemberRows(categories, business_categories, "category_id", detail.id) :
                       c.is_active}
               /\ DOMAIN detail.amenities =
                    {a \in MemberRows(amenities, business_amenities, "amenity_id", detail.id) :
                       a.is_active}
               /\ DOMAIN detail.regions =
                    MemberRows(regions, business_regions, "region_id", detail.id)

\* The detail of a listing whose only category is not active: the category
\* is left out while its amenity and region are returned.
C14_Witness ==
  /\ Returned
  /\ last.op = "getBusinessBySlug"
  /\ last.result # {}
  /\ MemberRows(categories, business_categories, "category_id", The(last.result).id) # {}
  /\ DOMAIN The(last.result).categories = {}
  /\ DOMAIN The(last.result).amenities # {}
  /\ DOMAIN The(last.result).regions # {}

\* C15: getStatesWithCounts returns one row per distinct state found among
\* the active listings or the regions, with the number of active listings
\* and the number of regions of that state, 0 where a source lacks the state.
C15_StatesWithCounts ==
  Returned /\ last.op = "getStatesWithCounts" =>
    LET listings(s) == {b \in ActiveIds : Stored(b).state = s}
        zones(s) == {r \in Range(regions) : r.state = s}
        states == {Stored(b).state : b \in ActiveIds} \cup {r.state : r \in Range(regions)}
    IN /\ {last.result[i].state : i \in DOMAIN last.result} = states
       /\ Len(last.result) = Cardinality(states)
       /\ \A i \in DOMAIN last.result :
            /\ last.result[i].business_count = Cardinality(listings(last.result[i].state))
            /\ last.result[i].region_count = Cardinality(zones(last.result[i].state))

\* The result holds a state without active listings, a state without
\* regions and a state with both.
C15_Witness ==
  /\ Returned
  /\ last.op = "getStatesWithCounts"
  /\ \E i, j, k \in DOMAIN last.result :
       /\ last.result[i].business_count = 0 /\ last.result[i].region_count > 0
       /\ last.result[j].business_count > 0 /\ last.result[j].region_count = 0
       /\ last.result[k].business_count > 0 /\ last.result[k].region_count > 0

FailingOps == ListOps \cup CountOps \cup {"getBusinessBySlug"}

\* The results a call resolves with when no query fails.
Outcomes(call) ==
  CASE call.op = "getBusinesses" -> getBusinesses(call.filters, call.pagination)
    [] call.op = "searchBusinesses" ->
         searchBusinesses(call.query, call.filters, call.pagination)
    [] call.op = "getBusinessCount" -> {getBusinessCount(call.filters)}
    [] call.op = "getSearchCount" -> {getSearchCount(call.query, call.filters)}
    [] call.op = "getBusinessBySlug" -> getBusinessBySlug(call.query)

\* The queries a call that resolves with result has sent.
QueriesSent(call, result) ==
  CASE call.op \in ListOps -> ListQueries(call.filters, result)
    [] call.op \in CountOps -> CountQueries(call.filters)
    [] call.op = "getBusinessBySlug" -> SlugQueries(result)

C17_NegativePaginationRejected ==
  Returned /\ last.op \in ListOps
           /\ (last.pagination.limit < 0 \/ last.pagination.offset < 0)
    => last.failed

\* C18: no step of any operation, whether it ends with a result, with null
\* or with an error, changes the listings, the categories, the amenities,
\* the regions or the three membership relations.
C18_ReadOnly == [][tables' = tables]_vars

\* A call has ended with an error over a store that holds rows in every table.
C18_Witness ==
  /\ Returned
  /\ last.failed
  /\ last.op = "getBusinesses"
  /\ Len(businesses) = NumBusinesses
  /\ business_categories # <<>> /\ business_amenities # <<>> /\ business_regions # <<>>

\* C19: two invocations of getBusinesses with the same filter and pagination
\* over the same store return the same ids in the same order, and two
\* invocations of getBusinessCount with the same filter the same number.
C19_SameCallSameResult ==
  Returned /\ prev # NoCall =>
    /\ last.op = "getBusinesses" =>
         [i \in DOMAIN last.result |-> last.result[i].id]
           = [i \in DOMAIN prev.result |-> prev.result[i].id]
    /\ last.op = "getBusinessCount" => last.result = prev.result

\* C20: over the same store and filter, RealDatabase and SimpleDatabase
\* return from getBusinesses (offset 0, limit covering all matches) the set
\* of listing ids TursoDatabase returns, and from getBusinessCount the
\* number TursoDatabase returns; an empty facet array constrains none of them.
C20_StrategiesAgree ==
  Returned =>
    /\ last.op \in OtherListOps /\ CoversAll(last.pagination) =>
         \A turso \in getBusinesses(last.filters, last.pagination) :
           ResultIds(last.result) = ResultIds(turso)
    /\ last.op \in OtherCountOps => last.result = getBusinessCount(last.filters)
    /\ last.op \in OtherListOps /\ CoversAll(last.pagination) /\ HasEmptyFacet(last.filters) =>
         \A turso \in getBusinesses(WithoutEmptyFacets(last.filters), last.pagination) :
           ResultIds(last.result) = ResultIds(turso)

\* SimpleDatabase returned some but not all active listings for a filter
\* that carries an empty facet array next to a facet that selects.
C20_Witness ==
  /\ Returned
  /\ last.op = "SimpleDatabase.getBusinesses"
  /\ HasEmptyFacet(last.filters)
  /\ last.filters.categories = {<<1, 2>>}
  /\ ResultIds(last.result) # {}
  /\ ResultIds(last.result) # ActiveIds

\* C21: with rating_min = r and nothing else supplied, the full result of
\* getBusinesses is exactly the active listings rated r or more, each once,
\* the higher rated first among listings of equal featured.
C21_RatingMinInclusive ==
  Returned /\ last.op = "getBusinesses" /\ last.filters.rating_min # {}
           /\ last.filters = Filter([NoScalars EXCEPT !.rating_min = last.filters.rating_min],
                                    {}, {}, {})
           /\ CoversAll(last.pagination) =>
    /\ ResultIds(last.result) = {b \in ActiveIds : Stored(b).rating >= The(last.filters.rating_min)}
    /\ Len(last.result) = Cardinality(ResultIds(last.result))
    /\ \A i, j \in DOMAIN last.result :
         i < j /\ last.result[i].featured = last.result[j].featured
           => last.result[i].rating >= last.result[j].rating

\* Ratings 3, 4 and 5 listed with rating_min = 4: the listings rated 5 and 4
\* are returned in that order, the one rated 3 is not.
C21_Witness ==
  /\ Returned
  /\ last.op = "getBusinesses"
  /\ last.filters.rating_min = {4}
  /\ ActiveIds = BusinessIds
  /\ {Stored(b).rating : b \in BusinessIds} = {3, 4, 5}
  /\ \A b \in BusinessIds : ~Stored(b).featured
  /\ Len(last.result) = 2
  /\ last.result[1].rating = 5 /\ last.result[2].rating = 4

\* The listings that hold membership in one of the ids of a facet.
FacetMembers(opt, junction, key) ==
  {junction[j].business_id : j \in {k \in DOMAIN junction : junction[k][key] \in Range(The(opt))}}

\* The member sets of the supplied facets, in the order the code looks them up.
SuppliedMembers(filters) ==
  When(Constrains(filters.categories),
       <<FacetMembers(filters.categories, business_categories, "category_id")>>)
    \o When(Constrains(filters.amenities),
            <<FacetMembers(filters.amenities, business_amenities, "amenity_id")>>)
    \o When(Constrains(filters.regions),
            <<FacetMembers(filters.regions, business_regions, "region_id")>>)

\* The positions at which the intersection of the member sets so far is empty.
EmptyAt(filters) ==
  LET sets == SuppliedMembers(filters)
  IN {n \in DOMAIN sets : \A id \in BusinessIds : \E k \in 1 .. n : id \notin sets[k]}

\* C22: once a facet lookup leaves no admissible id, the list operations
\* return [] and the count operations 0 without sending another query: a
\* store that fails every later query does not make the call fail.
C22_ShortCircuit ==
  Returned /\ last.op \in ListOps \cup CountOps =>
    \A n \in EmptyAt(last.filters) :
      store_fault = 0 \/ store_fault > n =>
        /\ ~last.failed
        /\ last.op \in ListOps => last.result = <<>>
        /\ last.op \in CountOps => last.result = 0

\* The second of three supplied facets emptied the intersection and the call
\* returned [] although the store would have failed its third query.
C22_Witness ==
  /\ Returned
  /\ last.op = "getBusinesses"
  /\ Len(SuppliedMembers(last.filters)) = 3
  /\ EmptyAt(last.filters) = {2, 3}
  /\ store_fault = 3
  /\ ~last.failed
  /\ last.result = <<>>

\* The lists of all matching listing ids, each once, featured first and
\* ratings descending among equal featured.
FullOrders(filters) ==
  LET ids == {b \in ActiveIds : MatchesFacets(filters, b) /\ MatchesScalars(filters, Stored(b))}
      n == Cardinality(ids)
  IN {q \in [1 .. n -> ids] :
        /\ \A i, j \in 1 .. n : i # j => q[i] # q[j]
        /\ \A i, j \in 1 .. n : i < j =>
             \/ Stored(q[i]).featured /\ ~Stored(q[j]).featured
             \/ /\ Stored(q[i]).featured = Stored(q[j]).featured
                /\ Stored(q[i]).rating >= Stored(q[j]).rating}

\* C23: with offset >= 0 and limit >= 0, getBusinesses returns at most limit
\* listings, the ones at positions offset .. offset + limit - 1 of a full
\* match list in featured-then-rating order; nothing from offset onwards
\* when offset reaches the number of matches.
C23_PageIsSlice ==
  Returned /\ last.op = "getBusinesses"
           /\ last.pagination.offset >= 0 /\ last.pagination.limit >= 0 =>
    /\ Len(last.result) <= last.pagination.limit
    /\ \E full \in FullOrders(last.filters) :
         LET from == last.pagination.offset + 1
             upto == IF last.pagination.offset + last.pagination.limit > Len(full)
                     THEN Len(full) ELSE last.pagination.offset + last.pagination.limit
         IN [i \in DOMAIN last.result |-> last.result[i].id]
              = [i \in 1 .. (IF upto < from THEN 0 ELSE upto - from + 1) |-> full[from + i - 1]]

\* The second page of one listing out of three matches.
C23_Witness ==
  /\ Returned
  /\ last.op = "getBusinesses"
  /\ last.pagination = [limit |-> 1, offset |-> 1]
  /\ last.filters = NoFilters
  /\ ActiveIds = BusinessIds
  /\ Len(last.result) = 1

\* C24: the categories attached to a listing returned by getBusinesses or
\* searchBusinesses are exactly the active categories the listing holds
\* membership in; none when it has no active category.
C24_AttachedCategories ==
  Returned /\ last.op \in ListOps /\ ~last.failed =>
    \A i \in DOMAIN last.result :
      DOMAIN last.result[i].categories =
        {c \in MemberRows(categories, business_categories, "category_id", last.result[i].id) :
           c.is_active}

\* A page holding a listing with an active category, and a listing whose
\* only category is inactive and whose array is empty.
C24_Witness ==
  /\ Returned
  /\ last.op = "getBusinesses"
  /\ \E i, j \in DOMAIN last.result :
       /\ DOMAIN last.result[i].categories # {}
       /\ DOMAIN last.result[j].categories = {}
       /\ MemberRows(categories, business_categories, "category_id", last.result[j].id) # {}

\* The filters obtained by taking one supplied constraint away.
FilterFields ==
  {"city", "state", "rating_min", "featured_only", "verified_only",
   "categories", "amenities", "regions"}
Relaxations(filters) ==
  {[filters EXCEPT ![field] = {}] : field \in {f \in FilterFields : filters[f] # {}}}

\* What the count operation of the last call yields for other filters.
CountFor(filters) ==
  IF last.op = "getSearchCount" THEN getSearchCount(last.query, filters)
  ELSE getBusinessCount(filters)

\* C25: a count made with one more supplied facet or scalar constraint is
\* never larger than the count made without that constraint, for
\* getSearchCount and getBusinessCount.
C25_ConstraintNeverEnlarges ==
  Returned /\ last.op \in CountOps /\ ~last.failed =>
    \A relaxed \in Relaxations(last.filters) : last.result <= CountFor(relaxed)

\* A search count that a supplied facet made strictly smaller, without
\* bringing it to zero.
C25_Witness ==
  /\ Returned
  /\ last.op = "getSearchCount"
  /\ last.result > 0
  /\ Constrains(last.filters.amenities)
  /\ last.result < CountFor([last.filters EXCEPT !.amenities = {}])

\* The rows of a result follow one another in the order Before.
InOrder(result, Before(_, _)) ==
  \A i, j \in DOMAIN result : i < j => ~Before(result[j], result[i])
\* The result holds exactly the given rows, each once.
HoldsExactly(result, rows) ==
  Range(result) = rows /\ Len(result) = Cardinality(rows)

\* C26: getCategories returns exactly the active categories ordered by name,
\* getAmenities exactly the active amenities ordered by category label and
\* then by name, getRegions all regions ordered by name; getCategoryBySlug
\* and getAmenityBySlug return null for a slug of an inactive entity or of
\* no entity.
C26_CatalogOrder ==
  Returned /\ ~last.failed =>
    /\ last.op = "getCategories" =>
         /\ HoldsExactly(last.result, {c \in Range(categories) : c.is_active})
         /\ InOrder(last.result, ByName)
    /\ last.op = "getAmenities" =>
         /\ HoldsExactly(last.result, {a \in Range(amenities) : a.is_active})
         /\ InOrder(last.result, ByCategoryThenName)
    /\ last.op = "getRegions" =>
         /\ HoldsExactly(last.result, Range(regions))
         /\ InOrder(last.result, ByName)
    /\ (/\ last.op = "getCategoryBySlug"
        /\ ~(\E c \in Range(categories) : c.slug = last.query /\ c.is_active))
         => last.result = {}
    /\ (/\ last.op = "getAmenityBySlug"
        /\ ~(\E a \in Range(amenities) : a.slug = last.query /\ a.is_active))
         => last.result = {}

\* C27: on an unchanged store, getRegionsByState called with the state of a
\* row of getStatesWithCounts returns as many regions as the row's
\* region_count, every one of that state.
C27_StateRegions ==
  Returned /\ last.op = "getRegionsByState" /\ prev.op = "getStatesWithCounts" =>
    \E i \in DOMAIN prev.result :
      /\ prev.result[i].state = last.query
      /\ Len(last.result) = prev.result[i].region_count
      /\ \A k \in DOMAIN last.result : last.result[k].state = prev.result[i].state

\* The state selected has two regions, and the store holds a region of a
\* state that differs from it in letter case only.
C27_Witness ==
  /\ Returned
  /\ last.op = "getRegionsByState"
  /\ prev.op = "getStatesWithCounts"
  /\ Len(last.result) = 2
  /\ \E r \in Range(regions) :
       r.state # last.query /\ LikeMatch(r.state, last.query)

\* The listing was a member of the supplied facet when the facet's lookup
\* read the junction table.
MemberAtLookup(field, key, id) ==
  Constrains(last.filters[field]) =>
    \E junction \in observed[field] : InFacet(last.filters[field], junction, key, id)

\* C28: with a writer changing the store between the queries of one
\* getBusinesses call, every listing of the returned page was active and
\* satisfied the supplied scalar predicates when the listings were selected,
\* and was a member of each supplied facet when that facet was looked up.
C28_WriterBetweenQueries ==
  Returned /\ last.op = "getBusinesses" /\ ~last.failed =>
    \A i \in DOMAIN last.result :
      /\ \E table \in observed.businesses : \E row \in Range(table) :
           /\ row.id = last.result[i].id
           /\ row.is_active
           /\ MatchesScalars(last.filters, row)
      /\ MemberAtLookup("categories", "category_id", last.result[i].id)
      /\ MemberAtLookup("amenities", "amenity_id", last.result[i].id)
      /\ MemberAtLookup("regions", "region_id", last.result[i].id)

\* The page holds a listing that the writer deactivated after the listings
\* were selected and that lost its membership in a supplied facet after the
\* lookup.
C28_Witness ==
  /\ Returned
  /\ last.op = "getBusinesses"
  /\ observed.writes = MaxWrites
  /\ SomeFacet(last.filters)
  /\ \E i \in DOMAIN last.result :
       /\ ~Stored(last.result[i].id).is_active
       /\ ~MatchesFacets(last.filters, last.result[i].id)

\* The number of rows of a junction table that link the listing to one of
\* the supplied ids: how often a lookup returns the listing's id.
TimesFound(opt, junction, key, id) ==
  Cardinality({j \in DOMAIN junction :
                 junction[j].business_id = id /\ junction[j][key] \in Range(The(opt))})

\* The active listings a count's WHERE clause admits: facets, the scalar
\* predicates the counts apply and, for the search count, the query.
CountedIds(call) ==
  {id \in ActiveIds :
     /\ MatchesFacets(call.filters, id)
     /\ MatchesScalars([call.filters EXCEPT !.rating_min = {}], Stored(id))
     /\ call.op = "getSearchCount" =>
          \E col \in {"name", "description", "full_address", "city", "business_type"} :
            LikeMatch(Stored(id)[col], Wrap(call.query))}

\* C29: no listing id occurs twice in a page of getBusinesses or
\* searchBusinesses, and getBusinessCount and getSearchCount count every
\* listing they admit once, also when a lookup returns the listing's id
\* several times (several supplied values, repeated membership rows).
C29_NoDuplicates ==
  Returned /\ ~last.failed =>
    /\ last.op \in ListOps =>
         \A i, j \in DOMAIN last.result :
           i # j => last.result[i].id # last.result[j].id
    /\ last.op \in CountOps => last.result = Cardinality(CountedIds(last))

\* A page with a listing whose id the categories lookup returned three
\* times: two supplied categories and a repeated membership row.
C29_Witness ==
  /\ Returned
  /\ last.op = "getBusinesses"
  /\ Constrains(last.filters.categories)
  /\ \E i \in DOMAIN last.result :
       /\ TimesFound(last.filters.categories, business_categories, "category_id",
                     last.result[i].id) >= 3
       /\ \E j, k \in DOMAIN business_categories :
            j # k /\ business_categories[j] = business_categories[k]
                  /\ business_categories[j].business_id = last.result[i].id

\* The supplied category ids whose category is stored with is_active = false.
InactiveSupplied(filters) ==
  IF Constrains(filters.categories)
  THEN {c.id : c \in {r \in Range(categories) : ~r.is_active}} \cap Range(The(filters.categories))
  ELSE {}
InactiveCategoryIds == {c.id : c \in {r \in Range(categories) : ~r.is_active}}

\* The active listings holding a membership row for category c.
ActiveMembersOf(c) ==
  {id \in ActiveIds :
     \E j \in DOMAIN business_categories :
       business_categories[j] = [business_id |-> id, category_id |-> c]}

Attached(listing, c) == \E cat \in DOMAIN listing.categories : cat.id = c

\* C30: facet filtering reads the membership rows only: an active listing
\* with a membership row for an inactive category c is returned by
\* getBusinesses and counted by getBusinessCount when c is the supplied
\* category, while c is missing from the categories attached to the listing
\* and from those getBusinessBySlug returns for it.
C30_InactiveCategoryStillFilters ==
  Returned /\ ~last.failed =>
    /\ last.op = "getBusinesses" /\ CoversAll(last.pagination) =>
         \A c \in InactiveSupplied(last.filters) : \A id \in ActiveMembersOf(c) :
           MatchesFacets(last.filters, id) /\ MatchesScalars(last.filters, Stored(id)) =>
             \E i \in DOMAIN last.result :
               last.result[i].id = id /\ ~Attached(last.result[i], c)
    /\ last.op = "getBusinessCount" =>
         \A c \in InactiveSupplied(last.filters) :
           last.result >=
             Cardinality({id \in ActiveMembersOf(c) :
                            /\ MatchesFacets(last.filters, id)
                            /\ MatchesScalars(last.filters, Stored(id))})
    /\ last.op = "getBusinessBySlug" =>
         \A d \in last.result : \A c \in InactiveCategoryIds :
           d.id \in ActiveMembersOf(c) =>
             /\ ~Attached(d, c)
             /\ \A page \in getBusinesses(Filter(NoScalars, {<<c>>}, {}, {}), FullPage) :
                  d.id \in ResultIds(page)
             /\ getBusinessCount(Filter(NoScalars, {<<c>>}, {}, {})) >= 1

\* getBusinesses, asked for an inactive category alone, returned a listing
\* and attached no category to it.
C30_Witness ==
  /\ Returned
  /\ last.op = "getBusinesses"
  /\ InactiveSupplied(last.filters) # {}
  /\ Range(The(last.filters.categories)) \subseteq InactiveCategoryIds
  /\ \E i \in DOMAIN last.result :
       /\ \E c \in InactiveSupplied(last.filters) : last.result[i].id \in ActiveMembersOf(c)
       /\ DOMAIN last.result[i].categories = {}

====
